---- MODULE Spec2Model ----
\* Verification model of the classiq-library notebooks:
\*  - Harshit_Agarwal_hw4.ipynb  (quantum walk on a 16-node line graph)
\*  - rainbow options with the integration method (src/unnamed/part_000)
EXTENDS Integers, Naturals, Sequences, FiniteSets, TLC

VARIABLES
  hpc,        \* hw4 notebook: position of the kernel
  hwrites,    \* hw4 notebook: number of top-level assignments per name
  node,       \* hw4: loop index i of C_operator's for loop
  prob,       \* hw4: the last probability vector built by C_iteration
  printed     \* hw4: the lines printed by C_iteration, <<i, prob>>

VARIABLES
  rpc,        \* rainbow notebook: next cell to run
  rwrites,    \* rainbow notebook: number of top-level assignments per name
  K,          \* strike price set by the parameter cell
  cval,       \* current value of the top-level name c
  cRead,      \* value of c read by affine_max when the model is synthesized
  warned,     \* the sanity-check cell displayed its warning
  synths,     \* number of synthesize(...) calls made
  executed,   \* execute(qprog) has run
  iqae,       \* the IQAE result returned by execute: estimation and interval
  parsed,     \* parse_result_integration's (option_value, confidence_interval)
  asserted    \* outcome of the assertion cell

VARIABLES
  fx,         \* input a of round_factor / floor_factor (a float64)
  fr,         \* round_factor(a)
  frr,        \* round_factor(round_factor(a))
  ff,         \* floor_factor(a)
  fff,        \* floor_factor(floor_factor(a))
  fstage      \* "in" before the helpers are applied, "done" after

VARIABLES
  gn,         \* num_qubits passed to gaussian_discretization
  gmu,        \* mu
  gsig,       \* sigma
  gprobs,     \* the returned probability list
  gstage      \* "in" before the call, "done" after

VARIABLES
  tpc,        \* repeat tutorial: statement counter of each version of main
  tj,         \* repeat tutorial: loop index inside apply_to_all / repeat
  tregs,      \* repeat tutorial: qubit states of psi and phi, per version
  ttrace      \* repeat tutorial: the gate applications performed, per version

repeatvars == <<tpc, tj, tregs, ttrace>>

VARIABLES
  sj0,        \* hw4 shift: basis value j of vertices before S_operator
  sk0,        \* hw4 shift: basis value k of adjacent_vertices before S_operator
  sv,         \* hw4 shift: current basis value of vertices
  sa,         \* hw4 shift: current basis value of adjacent_vertices
  sres,       \* hw4 shift: the res qubit left by each S_operator call
  scalls      \* hw4 shift: number of S_operator applications so far

shiftvars == <<sj0, sk0, sv, sa, sres, scalls>>

VARIABLES
  dx,         \* zero_diffuzer: basis value of x
  daux,       \* zero_diffuzer: state of the aux qubit
  dsign,      \* zero_diffuzer: phase (+1 / -1) of the branch |x>
  dstage      \* zero_diffuzer: statements executed so far

diffvars == <<dx, daux, dsign, dstage>>

VARIABLES
  din,        \* rainbow cell 2, run twice: the inputs COV, MU_LOG_RET, dt
  dval,       \* MU, CHOLESKY, SCALING_FACTOR computed by run 1 and run 2
  ddone       \* which of the two runs has executed

dervars == <<din, dval, ddone>>

hwvars == <<hpc, hwrites, node, prob, printed>>

factorvars == <<fx, fr, frr, ff, fff, fstage>>

gaussvars == <<gn, gmu, gsig, gprobs, gstage>>

rvars == <<rpc, rwrites, K, cval, cRead, warned, synths, executed, iqae,
           parsed, asserted>>

\* ------------------------------------------------------------------
\* Python helpers
\* ------------------------------------------------------------------

\* l[j] = v on a Python list (negative indices count from the end); an
\* index outside -len..len-1 raises IndexError, shown as <<"IndexError">>
PySet(l, j, v) ==
  LET k == IF j < 0 THEN j + Len(l) ELSE j
  IN IF k \in 0..Len(l) - 1 THEN [l EXCEPT ![k + 1] = v] ELSE <<"IndexError">>

\* ------------------------------------------------------------------
\* Decimal arithmetic for the notebooks' float64 values.  A natural number
\* is a sequence of base-W limbs, least significant first, with no
\* trailing zero limb.  A real is a record [neg, m]: (-1)^neg * m / W^F,
\* i.e. 32 decimal places.  Products and quotients are rounded to the
\* last place; np.exp, np.log, np.sqrt, pi and the normal CDF are computed
\* by series / Newton iteration to that precision, far below float64's
\* own rounding at the magnitudes the notebooks use.
\* ------------------------------------------------------------------

W == 10^4

F == 8

\* Operators below that use an argument more than once bind it to its
\* value first (CHOOSE over the one-element set {e}), so that it is
\* computed once.

Abs(x) == IF x < 0 THEN -x ELSE x

Max2(a, b) == IF a >= b THEN a ELSE b

Lb(a, i) == IF i <= Len(a) THEN a[i] ELSE 0

\* the number of limbs of a without its trailing zero limbs
RECURSIVE NTop(_, _)
NTop(a, k) == IF k > 0 /\ a[k] = 0 THEN NTop(a, k - 1) ELSE k

NNorm(a) == CHOOSE r \in {SubSeq(u, 1, NTop(u, Len(u))) : u \in {a}} : TRUE

RECURSIVE NFromInt(_)
NFromInt(n) == IF n = 0 THEN <<>> ELSE <<n % W>> \o NFromInt(n \div W)

RECURSIVE NToIntFrom(_, _)
NToIntFrom(a, i) == IF i > Len(a) THEN 0 ELSE a[i] + W * NToIntFrom(a, i + 1)

NToInt(a) == CHOOSE r \in {NToIntFrom(u, 1) : u \in {a}} : TRUE

RECURSIVE NAddC(_, _, _, _, _)
NAddC(a, b, i, c, n) ==
  IF i > n THEN NFromInt(c)
  ELSE CHOOSE r \in {<<t % W>> \o NAddC(a, b, i + 1, t \div W, n) :
                     t \in {Lb(a, i) + Lb(b, i) + c}} : TRUE

NAdd(a, b) ==
  CHOOSE r \in {NNorm(NAddC(u, v, 1, 0, Max2(Len(u), Len(v)))) : u \in {a}, v \in {b}} : TRUE

\* a - b for a >= b
RECURSIVE NSubC(_, _, _, _)
NSubC(a, b, i, c) ==
  IF i > Len(a) THEN <<>>
  ELSE CHOOSE r \in {IF t < 0 THEN <<t + W>> \o NSubC(a, b, i + 1, 1)
                     ELSE <<t>> \o NSubC(a, b, i + 1, 0) :
                     t \in {a[i] - Lb(b, i) - c}} : TRUE

NSub(a, b) == CHOOSE r \in {NNorm(NSubC(u, v, 1, 0)) : u \in {a}, v \in {b}} : TRUE

RECURSIVE NCmpFrom(_, _, _)
NCmpFrom(a, b, i) ==
  IF i = 0 THEN 0
  ELSE IF Lb(a, i) > Lb(b, i) THEN 1
  ELSE IF Lb(a, i) < Lb(b, i) THEN -1
  ELSE NCmpFrom(a, b, i - 1)

NCmp(a, b) ==
  CHOOSE r \in {NCmpFrom(u, v, Max2(Len(u), Len(v))) : u \in {a}, v \in {b}} : TRUE

\* a * k for a small natural k (k <= 10^5)
RECURSIVE NMulSmallC(_, _, _, _)
NMulSmallC(a, k, i, c) ==
  IF i > Len(a) THEN NFromInt(c)
  ELSE CHOOSE r \in {<<t % W>> \o NMulSmallC(a, k, i + 1, t \div W) :
                     t \in {a[i] * k + c}} : TRUE

NMulSmall(a, k) == CHOOSE r \in {NNorm(NMulSmallC(u, j, 1, 0)) : u \in {a}, j \in {k}} : TRUE

RECURSIVE ColSum(_, _, _, _)
ColSum(a, b, k, i) ==
  IF i > Len(a) \/ i > k THEN 0
  ELSE (IF k - i + 1 <= Len(b) THEN a[i] * b[k - i + 1] ELSE 0) + ColSum(a, b, k, i + 1)

RECURSIVE NCarry(_, _, _)
NCarry(col, i, c) ==
  IF i > Len(col) THEN NFromInt(c)
  ELSE CHOOSE r \in {<<t % W>> \o NCarry(col, i + 1, t \div W) : t \in {col[i] + c}} : TRUE

\* schoolbook product: column sums, then the carries
NMulCols(a, b) ==
  IF Len(a) = 0 \/ Len(b) = 0 THEN <<>>
  ELSE CHOOSE r \in {NNorm(NCarry(col, 1, 0)) :
                     col \in {[k \in 1..Len(a) + Len(b) - 1 |-> ColSum(a, b, k, 1)]}} : TRUE

NMul(a, b) == CHOOSE r \in {NMulCols(u, v) : u \in {a}, v \in {b}} : TRUE

\* <<a \div k, a % k>> for a small natural k (0 < k <= 10^5)
RECURSIVE NDivSmallC(_, _, _, _, _)
NDivSmallC(a, k, i, r, q) ==
  IF i = 0 THEN <<NNorm(q), r>>
  ELSE CHOOSE res \in {NDivSmallC(a, k, i - 1, t % k, <<t \div k>> \o q) :
                       t \in {r * W + a[i]}} : TRUE

NDivSmall(a, k) == CHOOSE r \in {NDivSmallC(u, j, Len(u), 0, <<>>) : u \in {a}, j \in {k}} : TRUE

\* a * W^p and a \div W^p
NShift(a, p) == CHOOSE r \in {IF Len(u) = 0 THEN <<>> ELSE [i \in 1..p |-> 0] \o u : u \in {a}} : TRUE

NDrop(a, p) == CHOOSE r \in {IF Len(u) <= p THEN <<>> ELSE SubSeq(u, p + 1, Len(u)) : u \in {a}} : TRUE

\* a / W^p rounded half up
NRoundDrop(a, p) ==
  CHOOSE r \in {IF p > 0 /\ Lb(u, p) >= W \div 2 THEN NAdd(NDrop(u, p), <<1>>) ELSE NDrop(u, p) :
                u \in {a}} : TRUE

\* long division: the largest limb d with b * d <= r, by bisection
RECURSIVE NDivDigit(_, _, _, _)
NDivDigit(r, b, lo, hi) ==
  IF lo >= hi THEN lo
  ELSE LET mid == (lo + hi + 1) \div 2
       IN IF NCmp(NMulSmall(b, mid), r) <= 0 THEN NDivDigit(r, b, mid, hi)
          ELSE NDivDigit(r, b, lo, mid - 1)

\* one limb of the long division: r1 is the running remainder with limb i
\* of a brought down
RECURSIVE NDivC(_, _, _, _, _), NDivStep(_, _, _, _, _)
NDivC(a, b, i, r, q) ==
  IF i = 0 THEN <<NNorm(q), r>>
  ELSE CHOOSE res \in {NDivStep(a, b, i, r1, q) : r1 \in {NNorm(<<a[i]>> \o r)}} : TRUE

NDivStep(a, b, i, r1, q) ==
  CHOOSE res \in {NDivC(a, b, i - 1, NSub(r1, NMulSmall(b, d)), <<d>> \o q) :
                  d \in {NDivDigit(r1, b, 0, W - 1)}} : TRUE

\* <<a \div b, a % b>> for naturals, b > 0
NDiv(a, b) == CHOOSE r \in {NDivC(u, v, Len(u), <<>>, <<>>) : u \in {a}, v \in {b}} : TRUE

\* reals
RMk(neg, m) == CHOOSE r \in {[neg |-> s /\ Len(u) > 0, m |-> u] : s \in {neg}, u \in {m}} : TRUE

RInt(n) == RMk(n < 0, NShift(NFromInt(Abs(n)), F))

\* n / 10^d for integers n and 0 <= d <= 4 * F
RDec(n, d) ==
  LET e == 4 * F - d
  IN RMk(n < 0, NMulSmall(NShift(NFromInt(Abs(n)), e \div 4), 10^(e % 4)))

\* round(x * 10^d) (half away from zero) as an integer, 0 <= d < 4 * F
RToDec(x, d) ==
  LET e == 4 * F - d
      half == NMulSmall(NShift(<<1>>, (e - 1) \div 4), 5 * 10^((e - 1) % 4))
  IN CHOOSE r \in {LET v == NToInt(NDivSmall(NDrop(NAdd(u.m, half), e \div 4), 10^(e % 4))[1])
                   IN IF u.neg THEN -v ELSE v : u \in {x}} : TRUE

RIsZero(x) == Len(x.m) = 0

RNeg(x) == CHOOSE r \in {RMk(~u.neg, u.m) : u \in {x}} : TRUE

RAbs(x) == RMk(FALSE, x.m)

RAdd(x, y) ==
  CHOOSE r \in {IF u.neg = v.neg THEN RMk(u.neg, NAdd(u.m, v.m))
                ELSE IF NCmp(u.m, v.m) >= 0 THEN RMk(u.neg, NSub(u.m, v.m))
                ELSE RMk(v.neg, NSub(v.m, u.m)) :
                u \in {x}, v \in {y}} : TRUE

RSub(x, y) == RAdd(x, RNeg(y))

\* -1, 0 or 1 as x < y, x = y, x > y
RCmp(x, y) ==
  CHOOSE r \in {IF RIsZero(d) THEN 0 ELSE IF d.neg THEN -1 ELSE 1 : d \in {RSub(x, y)}} : TRUE

RMul(x, y) ==
  CHOOSE r \in {RMk(u.neg # v.neg, NRoundDrop(NMul(u.m, v.m), F)) : u \in {x}, v \in {y}} : TRUE

\* x / y rounded half up: (2 x W^F + y) \div 2y
RDiv(x, y) ==
  CHOOSE r \in {RMk(u.neg # v.neg,
                    NDiv(NAdd(NMulSmall(NShift(u.m, F), 2), v.m), NMulSmall(v.m, 2))[1]) :
                u \in {x}, v \in {y}} : TRUE

\* x * k and x / k (truncated) for a small integer k
RMulInt(x, k) ==
  CHOOSE r \in {RMk(u.neg # (j < 0), NMulSmall(u.m, Abs(j))) : u \in {x}, j \in {k}} : TRUE

RDivInt(x, k) ==
  CHOOSE r \in {RMk(u.neg # (j < 0), NDivSmall(u.m, Abs(j))[1]) : u \in {x}, j \in {k}} : TRUE

\* x * 2^j and x / 2^j for j >= 0
RECURSIVE RMulPow2(_, _)
RMulPow2(x, j) == IF j <= 16 THEN RMulInt(x, 2^j) ELSE RMulPow2(RMulInt(x, 2^16), j - 16)

RECURSIVE RDivPow2(_, _)
RDivPow2(x, j) == IF j <= 16 THEN RDivInt(x, 2^j) ELSE RDivPow2(RDivInt(x, 2^16), j - 16)

RPow2(k) == IF k >= 0 THEN RMulPow2(RInt(1), k) ELSE RDivPow2(RInt(1), -k)

\* the loops of the numeric routines below: one step of loop kind k with
\* parameter p on state s, and the loop's exit condition
Step(k, p, s) ==
  CASE k = "square" -> RMul(s, s)
    [] k = "sqrt" ->
         CHOOSE r \in {IF RCmp(t, s) >= 0 THEN s ELSE t : t \in {RDivInt(RAdd(s, RDiv(p, s)), 2)}} : TRUE
    [] k = "log2" ->
         IF RCmp(p, RPow2(s + 1)) >= 0 THEN s + 1
         ELSE IF RCmp(p, RPow2(s)) < 0 THEN s - 1
         ELSE s
    [] k = "exp" -> [t |-> RDivInt(RMul(s.t, p), s.k), acc |-> RAdd(s.acc, s.t), k |-> s.k + 1]
    [] k = "atanh" ->
         [t |-> RDivInt(RMul(RMulInt(s.t, 2 * s.k - 1), p), 2 * s.k + 1),
          acc |-> RAdd(s.acc, s.t), k |-> s.k + 1]
    [] k = "atan" ->
         [t |-> RNeg(RDivInt(RDivInt(RMulInt(s.t, 2 * s.k - 1), 2 * s.k + 1), p * p)),
          acc |-> RAdd(s.acc, s.t), k |-> s.k + 1]
    [] k = "phi" ->
         [t |-> RNeg(RDivInt(RMul(RMulInt(s.t, 2 * s.k - 1), p), 2 * s.k * (2 * s.k + 1))),
          acc |-> RAdd(s.acc, s.t), k |-> s.k + 1]

Done(k, p, s) ==
  IF k \in {"sqrt", "log2"} THEN Step(k, p, s) = s ELSE RIsZero(s.t)

\* n steps; each new state is computed before the next step
RECURSIVE IterN(_, _, _, _)
IterN(k, p, s, n) ==
  IF n = 0 THEN s ELSE CHOOSE r \in {IterN(k, p, v, n - 1) : v \in {Step(k, p, s)}} : TRUE

IterBlock == 16

\* blocks of IterBlock steps until the exit condition holds (at most cap blocks)
RECURSIVE IterUntil(_, _, _, _)
IterUntil(k, p, s, cap) ==
  IF Done(k, p, s) \/ cap = 0 THEN s
  ELSE CHOOSE r \in {IterUntil(k, p, v, cap - 1) : v \in {IterN(k, p, s, IterBlock)}} : TRUE

\* a series sum_(j >= k0) t_j, summed until the term is 0
Series(k, p, t0, k0) ==
  CHOOSE r \in {IterUntil(k, q, [t |-> t0, acc |-> RInt(0), k |-> k0], 20).acc : q \in {p}} : TRUE

\* exp: Taylor series of exp(x / 2^j) for |x / 2^j| <= 1/2, squared j times
ExpSeries(y) == Series("exp", y, RInt(1), 1)

RECURSIVE ExpHalvings(_, _)
ExpHalvings(x, j) == IF RCmp(RMulInt(RAbs(x), 2), RPow2(j)) > 0 THEN ExpHalvings(x, j + 1) ELSE j

RExpBy(x, j) == IterN("square", 0, ExpSeries(RDivPow2(x, j)), j)

RExpPos(x) == CHOOSE r \in {RExpBy(x, j) : j \in {ExpHalvings(x, 0)}} : TRUE

\* exp(x) for x < 0 is 1 / exp(-x), which keeps the small result's
\* leading digits
RExp(x) == CHOOSE r \in {IF u.neg THEN RDiv(RInt(1), RExpPos(RNeg(u))) ELSE RExpPos(u) : u \in {x}} : TRUE

\* atanh(y) = sum of y^(2k+1) / (2k+1), for |y| <= 1/3
RAtanh(y) == CHOOSE r \in {Series("atanh", RMul(u, u), u, 1) : u \in {y}} : TRUE

\* log 2 = 2 atanh(1/3)
Ln2 == RMulInt(RAtanh(RDiv(RInt(1), RInt(3))), 2)

\* k with 2^k <= x < 2^(k+1), for x > 0
Log2Floor(x) == CHOOSE r \in {IterUntil("log2", u, 0, 20) : u \in {x}} : TRUE

\* log(x) = k log 2 + 2 atanh((u - 1) / (u + 1)), u = x / 2^k in [1, 2)
RLogBy(k, u) ==
  RAdd(RMulInt(Ln2, k), RMulInt(RAtanh(RDiv(RSub(u, RInt(1)), RAdd(u, RInt(1)))), 2))

RLogAt(x, k) ==
  CHOOSE r \in {RLogBy(k, u) : u \in {IF k >= 0 THEN RDivPow2(x, k) ELSE RMulPow2(x, -k)}} : TRUE

RLog(x) == CHOOSE r \in {CHOOSE l \in {RLogAt(u, k) : k \in {Log2Floor(u)}} : TRUE : u \in {x}} : TRUE

\* sqrt(x) for x >= 0: Newton's iteration from x + 1, which decreases to
\* the root; a step that does not decrease is not taken
RSqrt(x) ==
  CHOOSE r \in {IF RIsZero(u) THEN u ELSE IterUntil("sqrt", u, RAdd(u, RInt(1)), 20) : u \in {x}} : TRUE

\* Python's round(q / d) (round half to even) for an integer d > 0
RoundHalfEven(q, d) ==
  LET fl == q \div d
      r == q - fl * d
  IN IF 2 * r < d THEN fl
     ELSE IF 2 * r > d THEN fl + 1
     ELSE IF fl % 2 = 0 THEN fl ELSE fl + 1

\* np.linspace(lo, hi, n) for integers lo < hi: n evenly spaced points, both
\* ends included (lo + k * step, with step = (hi - lo) / (n - 1))
Linspace(lo, hi, n) ==
  [k \in 1..n |-> RAdd(RInt(lo), RDiv(RInt((hi - lo) * (k - 1)), RInt(n - 1)))]

\* ------------------------------------------------------------------
\* hw4: C_iteration's neighbour-probability vector.
\* Probabilities are kept in units of 1/2: 0 -> 0, 0.5 -> 1, 1.0 -> 2
\* (0.5 and 1.0 are exact binary floats).
\* ------------------------------------------------------------------

\* mutant: the i == 0 branch is lost, so node 0 falls through to the
\* interior case and writes prob[-1] (Python wraps it to index 15)
C_iteration_noleft(i) ==
  LET num_nodes == 2^4
      p0 == [k \in 1..num_nodes |-> 0]
  IN IF i = num_nodes - 1 THEN PySet(p0, i - 1, 2)
     ELSE PySet(PySet(p0, i - 1, 1), i + 1, 1)

C_iteration(i) ==
  LET num_nodes == 2^4
      p0 == [k \in 1..num_nodes |-> 0]
  IN IF i = 0 THEN PySet(p0, i + 1, 2)
     ELSE IF i = num_nodes - 1 THEN PySet(p0, i - 1, 2)
     ELSE PySet(PySet(p0, i - 1, 1), i + 1, 1)

\* ------------------------------------------------------------------
\* Rainbow options notebook (src/unnamed/part_000): numeric constants.
\* The literals are decimal: COV in 1e-6, MU_LOG_RET in 1e-8, S0 in 1e-2.
\* Derived constants are reals (see RMul); values kept in the notebook's
\* state (c) are rounded to 1/Sc.
\* ------------------------------------------------------------------

ScDigits == 5

Sc == 10^ScDigits

\* probabilities are held in 10^-ProbDigits
ProbDigits == 9

NUM_QUBITS == 2
NUM_ASSETS == 2
S0 == <<19397, 18912>>
dt == 250
COV == <<<<335, 257>>, <<257, 418>>>>
MU_LOG_RET == <<50963, 62552>>

\* strike prices the parameter cell may set (the notebook uses 190)
KValues == {190, 438, 439, 450}

S0r(i) == RDec(S0[i], 2)

\* MU = MU_LOG_RET * dt
MUOf(mlr, d) == [i \in 1..NUM_ASSETS |-> RMulInt(RDec(mlr[i], 8), d)]

\* CHOLESKY = np.linalg.cholesky(COV) * np.sqrt(dt)
\* cholesky([[c11, c12], [c21, c22]]) = [[l00, 0], [l10, l11]] with
\* l00 = sqrt(c11), l10 = c21 / l00, l11 = sqrt(c22 - l10^2)
CholeskyBy(cov, l00, sdt) ==
  LET c(i, j) == RDec(cov[i][j], 6)
  IN CHOOSE r \in {<<<<RMul(l00, sdt), RInt(0)>>,
                     <<RMul(l10, sdt), RMul(RSqrt(RSub(c(2, 2), RMul(l10, l10))), sdt)>>>> :
                   l10 \in {RDiv(c(2, 1), l00)}} : TRUE

CholeskyOf(cov, d) ==
  CHOOSE r \in {CholeskyBy(cov, l00, sdt) :
                l00 \in {RSqrt(RDec(cov[1][1], 6))}, sdt \in {RSqrt(RInt(d))}} : TRUE

\* mutant: 1 / CHOLESKY[1, 1]
ScalingFactorOf_l11(ch) == RDiv(RInt(1), ch[2][2])

\* SCALING_FACTOR = 1 / CHOLESKY[0, 0]
ScalingFactorOf(ch) == RDiv(RInt(1), ch[1][1])

\* cell 2 on the inputs COV, MU_LOG_RET, dt
DerivedOf(cov, mlr, d) ==
  CHOOSE r \in {[MU |-> MUOf(mlr, d), CHOLESKY |-> ch, SCALING_FACTOR |-> ScalingFactorOf(ch)] :
                ch \in {CholeskyOf(cov, d)}} : TRUE

MU == MUOf(MU_LOG_RET, dt)

CHOLESKY == CholeskyOf(COV, dt)

SCALING_FACTOR == ScalingFactorOf(CHOLESKY)

\* grid_points of gaussian_discretization(NUM_QUBITS) (mu = 0, sigma = 1):
\* np.linspace(-3, 3, 2**n + 1) without its last point
grid_points ==
  LET pts == Linspace(-3, 3, 2^NUM_QUBITS + 1)
  IN SubSeq(pts, 1, 2^NUM_QUBITS)

STEP_X == LET g == grid_points IN RSub(g[2], g[1])
MIN_X == grid_points[1]

\* CHOLESKY[i].sum()
RowSum(i) == LET row == CHOLESKY[i] IN RAdd(row[1], row[2])

\* S0 * np.exp(np.dot(CHOLESKY, [grid_points[-1]] * 2) + MU), per asset
MaxAssetValue(i) ==
  CHOOSE r \in {RMul(S0r(i), RExp(RAdd(RAdd(RMul(row[1], g), RMul(row[2], g)), MU[i]))) :
                g \in {grid_points[2^NUM_QUBITS]}, row \in {CHOLESKY[i]}} : TRUE

\* max(S0 * np.exp(...))
MaxAsset ==
  CHOOSE r \in {IF RCmp(v1, v2) >= 0 THEN v1 ELSE v2 :
                v1 \in {MaxAssetValue(1)}, v2 \in {MaxAssetValue(2)}} : TRUE

\* K >= max(S0 * np.exp(...))
SanityGuard(k) == RCmp(RInt(k), MaxAsset) >= 0

\* round_factor at FRAC_PLACES = 2 for the value x / d (d a multiple of
\* 2**FRAC_PLACES): round(a * 4) / 4 on a decimal a far below the float64
\* overflow threshold, where a * 4 is exact
FRAC_PLACES == 2

round_factor_dec(x, d) ==
  LET pf == 2^FRAC_PLACES
  IN RoundHalfEven(x * pf, d) * (d \div pf)

a_const == RDiv(STEP_X, SCALING_FACTOR)

b_const == RAdd(RAdd(RLog(S0r(1)), MU[1]), RMul(MIN_X, RowSum(1)))

\* c before the c = round_factor(c) line, rounded to 1/Sc
\* (SCALING_FACTOR = 1 / CHOLESKY[0, 0])
c_raw ==
  CHOOSE r \in {RToDec(RDiv(RMul(RDiv(RInt(1), ch[1][1]),
                                 RAdd(RSub(RAdd(RLog(S0r(2)), mu[2]), RAdd(RLog(S0r(1)), mu[1])),
                                      RMul(MIN_X, RAdd(RSub(ch[2][1], ch[1][1]),
                                                       RSub(ch[2][2], ch[1][2]))))),
                            STEP_X),
                       ScDigits) :
                ch \in {CHOLESKY}, mu \in {MU}} : TRUE

\* size and fraction digits of max(affine_0, affine_1 + c) as inferred by
\* the SDK's get_expression_numeric_attributes (recovered from the
\* post-processing constants of the recorded run)
MaxRegType == [size |-> 5, frac |-> 2]

MAX_NUM_QUBITS == MaxRegType.size
MAX_FRAC_PLACES == MaxRegType.frac

\* ------------------------------------------------------------------
\* Rainbow notebook: post-processing (parse_result_integration) and the
\* A, B, C terms of get_strike_price_theta_integration
\* ------------------------------------------------------------------

\* exp_rate = (1 / 2**frac) * a; B = (exp(2**size * exp_rate) - 1) / exp(exp_rate);
\* A = 1 / exp(exp_rate); C = S0[0] * exp(MU[0] + MIN_X * CHOLESKY[0].sum())
AffineABC(exp_rate, size) ==
  CHOOSE r \in {[A |-> RDiv(RInt(1), e1),
                 B |-> RDiv(RSub(RExp(RMulPow2(exp_rate, size)), RInt(1)), e1),
                 C |-> RMul(S0r(1), RExp(RAdd(MU[1], RMul(MIN_X, RowSum(1)))))] :
                e1 \in {RExp(exp_rate)}} : TRUE

\* A, B, C of get_strike_price_theta_integration(x) for a register x of
\* the given size and fraction digits
ThetaABC(size, frac) ==
  CHOOSE r \in {AffineABC(er, size) : er \in {RMul(RDivPow2(RInt(1), frac), a_const)}} : TRUE

\* parse_result_integration's exp_rate, B, A, C, given exp_rate
ParseTermsAt(exp_rate, num_qubits) ==
  CHOOSE r \in {[B |-> RDiv(RSub(RExp(RMulInt(exp_rate, 2^num_qubits)), RInt(1)), e1),
                 A |-> RDiv(RInt(1), e1),
                 C |-> RMul(S0r(1), RExp(RAdd(MU[1], RMul(MIN_X, RowSum(1)))))] :
                e1 \in {RExp(exp_rate)}} : TRUE

\* mutant: MAX_NUM_QUBITS and MAX_FRAC_PLACES exchanged
ParseTerms_swapped ==
  CHOOSE r \in {ParseTermsAt(er, MAX_FRAC_PLACES) :
                  er \in {RMul(RDivInt(RInt(1), 2^MAX_NUM_QUBITS), a_const)}} : TRUE

\* exp_rate = (1 / (2**MAX_FRAC_PLACES)) * a;
\* B = (np.exp((2**MAX_NUM_QUBITS) * exp_rate) - 1) / np.exp(exp_rate);
\* A = 1 / np.exp(exp_rate); C = S0[0] * np.exp((MU[0] + MIN_X * CHOLESKY[0].sum()))
ParseTerms ==
  CHOOSE r \in {ParseTermsAt(er, MAX_NUM_QUBITS) :
                  er \in {RMul(RDivInt(RInt(1), 2^MAX_FRAC_PLACES), a_const)}} : TRUE

\* option_value = estimation * (C * B) + (C * A) - K and the same for both
\* ends of the confidence interval, in exact (32-decimal) arithmetic; the
\* IQAE probabilities are held in 10^-ProbDigits.  t holds B, A, C.
parse_result_integration(t, res, k) ==
  [option_value |-> RSub(RAdd(RMul(RDec(res.est, ProbDigits), RMul(t.C, t.B)), RMul(t.C, t.A)), RInt(k)),
   lo |-> RSub(RAdd(RMul(RDec(res.lo, ProbDigits), RMul(t.C, t.B)), RMul(t.C, t.A)), RInt(k)),
   hi |-> RSub(RAdd(RMul(RDec(res.hi, ProbDigits), RMul(t.C, t.B)), RMul(t.C, t.A)), RInt(k))]

\* IQAE results execute(...) may return: an estimation inside its
\* confidence interval, on a grid of probabilities (in 10^-ProbDigits) that
\* holds the recorded run's result 0.051902492 in (0.046534355, 0.057270630)
\* and, at K = 190, the neighbours 0.039387915 / 0.039387916 of the -5
\* threshold (-5.0000007 / -4.9999981) and 0.058688794 / 0.058688795 of the
\* 45 threshold (44.9999980 / 45.0000006)
IqaeGrid == {20000000, 39387915, 39387916, 46534355, 51902492, 57270630,
             58688794, 58688795, 70000000}

IqaeResults ==
  {r \in [est : IqaeGrid, lo : IqaeGrid, hi : IqaeGrid] :
     r.lo <= r.est /\ r.est <= r.hi}

\* mutant: the assertion tests containment in [-5, 45]
AssertionHolds_contained(p) == ~(RCmp(p.lo, RInt(-5)) < 0 \/ RCmp(RInt(45), p.hi) < 0)

\* assert not (conf_interval[1] < -5 or 45 < conf_interval[0])
AssertionHolds(p) == ~(RCmp(p.hi, RInt(-5)) < 0 \/ RCmp(RInt(45), p.lo) < 0)

RNames == {"K", "S0", "dt", "COV", "MU_LOG_RET", "NUM_QUBITS", "NUM_ASSETS",
           "MU", "CHOLESKY", "SCALING_FACTOR", "grid_points", "probabilities",
           "STEP_X", "MIN_X", "FRAC_PLACES", "a", "b", "c",
           "MAX_NUM_QUBITS", "MAX_FRAC_PLACES"}

Bump(w, names) == [v \in DOMAIN w |-> IF v \in names THEN w[v] + 1 ELSE w[v]]

RInit ==
  /\ rpc = "params"
  /\ rwrites = [v \in RNames |-> 0]
  /\ K = 0
  /\ cval = 0
  /\ cRead = 0
  /\ warned = FALSE
  /\ synths = 0
  /\ executed = FALSE
  /\ iqae = [est |-> 0, lo |-> 0, hi |-> 0]
  /\ parsed = [option_value |-> RInt(0), lo |-> RInt(0), hi |-> RInt(0)]
  /\ asserted = "none"

\* cell 1: problem inputs
ParamsCell ==
  /\ rpc = "params"
  /\ \E k \in KValues : K' = k
  /\ rwrites' = Bump(rwrites, {"K", "S0", "dt", "COV", "MU_LOG_RET",
                               "NUM_QUBITS", "NUM_ASSETS"})
  /\ rpc' = "derived"
  /\ UNCHANGED <<cval, cRead, warned, synths, executed, iqae, parsed, asserted>>

\* cell 2: MU, CHOLESKY, SCALING_FACTOR
DerivedCell ==
  /\ rpc = "derived"
  /\ rwrites' = Bump(rwrites, {"MU", "CHOLESKY", "SCALING_FACTOR"})
  /\ rpc' = "grid"
  /\ UNCHANGED <<K, cval, cRead, warned, synths, executed, iqae, parsed, asserted>>

\* cell 3: grid_points, probabilities = gaussian_discretization(NUM_QUBITS)
GridCell ==
  /\ rpc = "grid"
  /\ rwrites' = Bump(rwrites, {"grid_points", "probabilities", "STEP_X", "MIN_X"})
  /\ rpc' = "sanity"
  /\ UNCHANGED <<K, cval, cRead, warned, synths, executed, iqae, parsed, asserted>>

\* cell 4: if K >= max(...): display(Markdown(warning)); nothing else
SanityCell ==
  /\ rpc = "sanity"
  /\ warned' = SanityGuard(K)
  /\ rpc' = "precision"
  /\ UNCHANGED <<rwrites, K, cval, cRead, synths, executed, iqae, parsed, asserted>>

\* cell 5: FRAC_PLACES and the rounding helpers
PrecisionCell ==
  /\ rpc = "precision"
  /\ rwrites' = Bump(rwrites, {"FRAC_PLACES"})
  /\ rpc' = "affine"
  /\ UNCHANGED <<K, cval, cRead, warned, synths, executed, iqae, parsed, asserted>>

\* mutant: the c = round_factor(c) line is lost
AffineCell_unrounded ==
  /\ rpc = "affine"
  /\ rwrites' = [v \in RNames |->
                   IF v = "c" THEN rwrites[v] + 2
                   ELSE IF v \in {"a", "b", "MAX_NUM_QUBITS", "MAX_FRAC_PLACES"}
                   THEN rwrites[v] + 1 ELSE rwrites[v]]
  /\ cval' = c_raw
  /\ rpc' = "synth"
  /\ UNCHANGED <<K, cRead, warned, synths, executed, iqae, parsed, asserted>>

\* cell 6: a, b, c = ..., c = round_factor(c), MAX_NUM_QUBITS, MAX_FRAC_PLACES
AffineCell ==
  /\ rpc = "affine"
  /\ rwrites' = [v \in RNames |->
                   IF v = "c" THEN rwrites[v] + 2
                   ELSE IF v \in {"a", "b", "MAX_NUM_QUBITS", "MAX_FRAC_PLACES"}
                   THEN rwrites[v] + 1 ELSE rwrites[v]]
  /\ \E c \in {c_raw} : cval' = round_factor_dec(c, Sc)
  /\ rpc' = "synth"
  /\ UNCHANGED <<K, cRead, warned, synths, executed, iqae, parsed, asserted>>

\* cell 12: create_model(main) and synthesize; affine_max reads c
SynthCell ==
  /\ rpc = "synth"
  /\ synths' = synths + 1
  /\ cRead' = cval
  /\ rpc' = "run"
  /\ UNCHANGED <<rwrites, K, cval, warned, executed, iqae, parsed, asserted>>

\* cell 18: synthesize_and_execute(parse_result_integration)
RunCell ==
  /\ rpc = "run"
  /\ synths' = synths + 1
  /\ executed' = TRUE
  /\ \E t \in {ParseTerms} :
       \E r \in IqaeResults :
          /\ iqae' = r
          /\ parsed' = parse_result_integration(t, r, K)
  /\ rpc' = "assert"
  /\ UNCHANGED <<rwrites, K, cval, cRead, warned, asserted>>

\* cell 19: the sanity assertion on the confidence interval
AssertCell ==
  /\ rpc = "assert"
  /\ asserted' = IF AssertionHolds(parsed) THEN "pass" ELSE "fail"
  /\ rpc' = "done"
  /\ UNCHANGED <<rwrites, K, cval, cRead, warned, synths, executed, iqae, parsed>>

RNext == ParamsCell \/ DerivedCell \/ GridCell \/ SanityCell \/ PrecisionCell
         \/ AffineCell \/ SynthCell \/ RunCell \/ AssertCell

\* ------------------------------------------------------------------
\* Rainbow cell 2 (MU, CHOLESKY, SCALING_FACTOR) run twice on the same
\* inputs COV, MU_LOG_RET, dt (self-composition).
\* ------------------------------------------------------------------

CovValues == {COV, <<<<100, 0>>, <<0, 100>>>>, <<<<400, -150>>, <<-150, 900>>>>}
MluValues == {MU_LOG_RET, <<-20000, 0>>}
DtValues == {1, 21, 250, 252, 365}

DerZero == [MU |-> <<>>, CHOLESKY |-> <<>>, SCALING_FACTOR |-> RInt(0)]

DerInit ==
  /\ din \in [COV : CovValues, MU_LOG_RET : MluValues, dt : DtValues]
  /\ dval = [r \in {1, 2} |-> DerZero]
  /\ ddone = [r \in {1, 2} |-> FALSE]

DerIdle ==
  /\ din = [COV |-> COV, MU_LOG_RET |-> MU_LOG_RET, dt |-> dt]
  /\ dval = [r \in {1, 2} |-> DerZero]
  /\ ddone = [r \in {1, 2} |-> FALSE]

\* run r of cell 2
DerivedRun(r) ==
  /\ ~ddone[r]
  /\ dval' = [dval EXCEPT ![r] = DerivedOf(din.COV, din.MU_LOG_RET, din.dt)]
  /\ ddone' = [ddone EXCEPT ![r] = TRUE]
  /\ UNCHANGED din

DerivedRun1 == DerivedRun(1)
DerivedRun2 == DerivedRun(2)

RECURSIVE SeqSum(_)
SeqSum(s) == IF s = <<>> THEN 0 ELSE Head(s) + SeqSum(Tail(s))

\* ------------------------------------------------------------------
\* round_factor / floor_factor on float64 arguments.  A float is
\* [k |-> "fin", m, e], the value m * 2^e in canonical form (m odd, or
\* m = 0 and e = 0), or [k |-> "inf", m |-> +1 / -1] for +inf / -inf.
\* [k |-> "err"] is the OverflowError raised by round() of an infinity.
\* ------------------------------------------------------------------

RECURSIVE FloorLog2(_)
FloorLog2(n) == IF n < 2 THEN 0 ELSE 1 + FloorLog2(n \div 2)

RECURSIVE FMk(_, _)
FMk(m, e) ==
  IF m = 0 THEN [k |-> "fin", m |-> 0, e |-> 0]
  ELSE IF m % 2 = 0 THEN FMk(m \div 2, e + 1)
  ELSE [k |-> "fin", m |-> m, e |-> e]

FInf(sgn) == [k |-> "inf", m |-> sgn, e |-> 0]

OverflowError == [k |-> "err", m |-> 0, e |-> 0]

\* a finite float64 is below 2^1024 in magnitude
FMaxExp == 1024

\* exponent of the leading bit of a finite non-zero float
FLead(x) == FloorLog2(Abs(x.m)) + x.e

ICmp(a, b) == IF a < b THEN -1 ELSE IF a > b THEN 1 ELSE 0

FSgn(x) == ICmp(x.m, 0)

\* exact comparison of two floats (finite or infinite): -1, 0 or 1
FCmp(x, y) ==
  CASE x.k = "inf" /\ y.k = "inf" -> ICmp(x.m, y.m)
    [] x.k = "inf" -> x.m
    [] y.k = "inf" -> -y.m
    [] FSgn(x) # FSgn(y) -> ICmp(FSgn(x), FSgn(y))
    [] FSgn(x) = 0 -> 0
    [] FLead(x) # FLead(y) -> FSgn(x) * ICmp(FLead(x), FLead(y))
    [] OTHER ->
         LET e0 == IF x.e < y.e THEN x.e ELSE y.e
         IN ICmp(x.m * 2^(x.e - e0), y.m * 2^(y.e - e0))

\* a * precision_factor: exact, or +-inf past the largest float64
FMulPf(x) ==
  IF x.k # "fin" THEN x
  ELSE LET y == FMk(x.m, x.e + FRAC_PLACES)
       IN IF y.m # 0 /\ FLead(y) >= FMaxExp THEN FInf(FSgn(y)) ELSE y

\* float / precision_factor (exact: no value here is near the subnormals)
FDivPf(x) == IF x.k # "fin" THEN x ELSE FMk(x.m, x.e - FRAC_PLACES)

\* np.floor
FFloor(x) ==
  IF x.k # "fin" \/ x.e >= 0 THEN x ELSE FMk(x.m \div 2^(-x.e), 0)

\* Python round(x) with one argument: an int, half to even; OverflowError
\* for an infinity
PyRound(x) ==
  IF x.k = "inf" THEN OverflowError
  ELSE IF x.e >= 0 THEN x
  ELSE FMk(RoundHalfEven(x.m, 2^(-x.e)), 0)

\* int / precision_factor: true division of an int below 2^1024 is exact here
IntDivPf(i) == IF i.k = "err" THEN i ELSE FMk(i.m, i.e - FRAC_PLACES)

\* mutant: the division by precision_factor is lost
round_factor_unscaled(a) == PyRound(FMulPf(a))

round_factor(a) == IntDivPf(PyRound(FMulPf(a)))

\* mutant: truncation toward zero in place of np.floor
floor_factor_trunc(a) ==
  LET q == FMulPf(a)
  IN IF q.k # "fin" \/ q.e >= 0 THEN FDivPf(q)
     ELSE FDivPf(FMk((IF q.m >= 0 THEN q.m \div 2^(-q.e) ELSE -((-q.m) \div 2^(-q.e))), 0))

floor_factor(a) == FDivPf(FFloor(FMulPf(a)))

\* arguments: multiples of 1/XDen up to XMax/XDen in magnitude, and floats
\* m * 2^e next to the float64 overflow of a * 4 (|a| >= 2^1022)
XDen == 2^4
XMax == 40

BigExps == {1020, 1021, 1022}

FactorInputs ==
  {FMk(n, -4) : n \in -XMax..XMax}
    \cup {FMk(s * m, e) : s \in {1, -1}, m \in {1, 3}, e \in BigExps}

FZero == FMk(0, 0)

FInit ==
  /\ fx \in FactorInputs
  /\ fr = FZero /\ frr = FZero /\ ff = FZero /\ fff = FZero
  /\ fstage = "in"

FIdle ==
  /\ fx = FZero /\ fr = FZero /\ frr = FZero /\ ff = FZero /\ fff = FZero
  /\ fstage = "in"

\* round_factor(round_factor(a)) raises when round_factor(a) does
ApplyFactors ==
  /\ fstage = "in"
  /\ \E r \in {round_factor(fx)} :
       /\ fr' = r
       /\ frr' = IF r.k = "err" THEN r ELSE round_factor(r)
  /\ \E f \in {floor_factor(fx)} :
       /\ ff' = f
       /\ fff' = floor_factor(f)
  /\ fstage' = "done"
  /\ UNCHANGED fx

\* ------------------------------------------------------------------
\* gaussian_discretization(num_qubits, mu, sigma).  mu is a float64
\* written m * 2^e with a small integer significand m (|m| < 2^20) and
\* e >= 0; sigma is a float64 m * 2^e with a small positive m and either
\* e = 0 or e near the float64 limit (e >= 1020).  Every float the function
\* forms near mu (lower, upper, the linspace points) is held as its offset
\* from mu, a multiple of 2^-n (n = num_qubits), and rounded to float64
\* (round half to even).  scipy.stats.norm.cdf is computed as a real and
\* rounded to 10^-ProbDigits.
\* ------------------------------------------------------------------

IsPow2(n) == n = 2^FloorLog2(n)

\* float64(mu + num / 2^n) - mu, times 2^n.  The float64 spacing at mu is
\* 2^(E - 52) (E the exponent of mu), half that on the side toward zero
\* when |mu| is a power of two; below 2^-n spacing the sum is exact.  With
\* |m| < 2^20, mu / spacing is even, so ties round to an even multiple.
Fl64AddDy(mu, num, n) ==
  LET am == Abs(mu.m)
      E == mu.e + FloorLog2(am)
      towardZero == (mu.m > 0 /\ num < 0) \/ (mu.m < 0 /\ num > 0)
      ex == (IF towardZero /\ IsPow2(am) THEN E - 53 ELSE E - 52) + n
  IN IF am = 0 \/ ex <= 0 THEN num ELSE RoundHalfEven(num, 2^ex) * 2^ex

\* pi = 16 atan(1/5) - 4 atan(1/239) (Machin); atan(1/q) is the sum of
\* (-1)^k / ((2k+1) q^(2k+1))
AtanInv(q) == Series("atan", q, RDivInt(RInt(1), q), 1)

Pi == RSub(RMulInt(AtanInv(5), 16), RMulInt(AtanInv(239), 4))

InvSqrt2Pi == RDiv(RInt(1), RSqrt(RMulInt(Pi, 2)))

\* sum of (-1)^k z^(2k+1) / (2^k k! (2k+1)) = sqrt(2 pi) (ndtr(z) - 1/2):
\* term k+1 is term k * (-z^2) (2k+1) / (2 (k+1) (2k+3))
PhiSeries(z) == Series("phi", RMul(z, z), z, 1)

\* beyond NormCdfCut the normal tail is below 7e-16 and rounds to 0
NormCdfCut == 8

\* scipy.stats.norm.cdf(z)
NormCdf(z) ==
  IF RCmp(RAbs(z), RInt(NormCdfCut)) > 0 THEN (IF z.neg THEN RInt(0) ELSE RInt(1))
  ELSE RAdd(RDivInt(RInt(1), 2), RMul(InvSqrt2Pi, PhiSeries(z)))

\* the probability list: num / den per bin, or NaN in every bin when the
\* normalising sum is 0 (numpy's 0 / 0).  lower, upper: mu -/+ 3*sigma;
\* np.linspace adds k * step = k * (upper - lower) / 2^n to lower and sets
\* the last point to upper; norm.cdf(x, loc=mu, scale=sigma) is
\* NormCdf((x - mu) / sigma), x - mu being exact for floats this close.
GaussProbsNear(n, mu, sigma, normalise) ==
  LET lo == Fl64AddDy(mu, -(3 * sigma), 0)
      hi == Fl64AddDy(mu, 3 * sigma, 0)
      bins == 2^n
      xs == [k \in 1..bins + 1 |->
               IF k = bins + 1 THEN hi * bins
               ELSE Fl64AddDy(mu, lo * bins + (k - 1) * (hi - lo), n)]
      cdf == [k \in 1..bins + 1 |->
                RToDec(NormCdf(RDiv(RInt(xs[k]), RInt(bins * sigma))), ProbDigits)]
      pmf == [k \in 1..bins |-> cdf[k + 1] - cdf[k]]
      total == SeqSum(pmf)
  IN IF ~normalise
     THEN [k \in 1..bins |-> [nan |-> FALSE, num |-> pmf[k], den |-> 10^ProbDigits]]
     ELSE IF total = 0 THEN [k \in 1..bins |-> [nan |-> TRUE, num |-> 0, den |-> 0]]
     ELSE [k \in 1..bins |-> [nan |-> FALSE, num |-> pmf[k], den |-> total]]

\* sigma = m * 2^e.  For e = 0, GaussProbsNear.  For e >= 1020, mu (below
\* 2^61 in magnitude) is absorbed: lower = -3*sigma, upper = 3*sigma and
\* every linspace point is exact, so the result is that of mu = 0 with
\* sigma = m.  If upper - lower = 6*sigma reaches 2^1024 it is inf (and
\* lower, upper are -inf, +inf once 3*sigma overflows): step = inf, the
\* first linspace point is 0 * inf + lower = NaN, so the first CDF value,
\* the first difference, the sum and every entry are NaN.
GaussProbs(n, mu, sigma, normalise) ==
  IF sigma.e = 0 THEN GaussProbsNear(n, mu, sigma.m, normalise)
  ELSE IF FloorLog2(6 * sigma.m) + sigma.e >= FMaxExp
  THEN [k \in 1..2^n |-> [nan |-> TRUE, num |-> 0, den |-> 0]]
  ELSE GaussProbsNear(n, [m |-> 0, e |-> 0], sigma.m, normalise)

\* mutant: the CDF differences are returned without dividing by their sum
gaussian_discretization_unnormalised(n, mu, sigma) == GaussProbs(n, mu, sigma, FALSE)

gaussian_discretization(n, mu, sigma) == GaussProbs(n, mu, sigma, TRUE)

MaxQubits == 3

\* mu = 0 (the default) and small values; 2^53 and 5 * 2^50, where float64
\* rounds some of the sample points; 2^60 and -3 * 2^58, where 3*sigma is
\* absorbed
MuValues == {[m |-> 0, e |-> 0], [m |-> 1, e |-> 0], [m |-> -5, e |-> 0],
             [m |-> 1, e |-> 53], [m |-> 5, e |-> 50],
             [m |-> 1, e |-> 60], [m |-> -3, e |-> 58]}
\* sigma = 1, 2, 3; 2^1020 and 2^1021 (6*sigma finite); 2^1022 (6*sigma
\* overflows); 3 * 2^1021 (3*sigma overflows too)
SigmaValues ==
  {[m |-> 1, e |-> 0], [m |-> 2, e |-> 0], [m |-> 3, e |-> 0],
   [m |-> 1, e |-> 1020], [m |-> 1, e |-> 1021], [m |-> 1, e |-> 1022],
   [m |-> 3, e |-> 1021]}

GInit ==
  /\ gn \in 0..MaxQubits
  /\ gmu \in MuValues
  /\ gsig \in SigmaValues
  /\ gprobs = <<>>
  /\ gstage = "in"

GIdle ==
  /\ gn = 0 /\ gmu = [m |-> 0, e |-> 0] /\ gsig = [m |-> 1, e |-> 0] /\ gprobs = <<>> /\ gstage = "in"

CallGaussian ==
  /\ gstage = "in"
  /\ gprobs' = gaussian_discretization(gn, gmu, gsig)
  /\ gstage' = "done"
  /\ UNCHANGED <<gn, gmu, gsig>>

\* ------------------------------------------------------------------
\* Repeat tutorial (src/tutorials/classiq_concepts/repeat/repeat.ipynb).
\* Only single-qubit gates and SWAPs act, so the state stays a product
\* state: each qubit is one of |0>, |1>, |+>, |->  (global phases dropped).
\* The Python SDK main is a statement list run one gate per step; the
\* native QMOD listing has its own syntax tree and interpreter, which runs
\* one statement per step.  repeat is run as the tutorial describes it: a
\* for loop over i = 0..count-1.
\* ------------------------------------------------------------------

Qubit1 == {"zero", "one", "plus", "minus"}

ApplyH(q) ==
  CASE q = "zero" -> "plus" [] q = "one" -> "minus"
    [] q = "plus" -> "zero" [] q = "minus" -> "one"

ApplyX(q) ==
  CASE q = "zero" -> "one" [] q = "one" -> "zero"
    [] q = "plus" -> "plus" [] q = "minus" -> "minus"

ApplyGate(g, q) == IF g = "H" THEN ApplyH(q) ELSE ApplyX(q)

Stmt(op, gate, reg, reg2, n) == [op |-> op, gate |-> gate, reg |-> reg, reg2 |-> reg2, n |-> n]

\* mutant: the gates of the two apply_to_all calls exchanged
PyMainProgram_gates_swapped ==
  << Stmt("allocate", "", "psi", "", 5),
     Stmt("allocate", "", "phi", "", 5),
     Stmt("apply_to_all", "X", "psi", "", 0),
     Stmt("apply_to_all", "H", "phi", "", 0),
     Stmt("repeat", "SWAP", "phi", "psi", 0) >>

\* main of the Python SDK cell; for "repeat", n is added to psi.len to
\* give count, and the iteration is SWAP(reg[i], reg2[i])
PyMainProgram ==
  << Stmt("allocate", "", "psi", "", 5),
     Stmt("allocate", "", "phi", "", 5),
     Stmt("apply_to_all", "H", "psi", "", 0),
     Stmt("apply_to_all", "X", "phi", "", 0),
     Stmt("repeat", "SWAP", "phi", "psi", 0) >>

\* The native QMOD listing, statement by statement:
\*   allocate<5>(psi); allocate<5>(phi);
\*   apply_to_all<H>(psi); apply_to_all<X>(phi);
\*   repeat(i:psi.len) { SWAP(phi[i], psi[i]); }
\* A repeat count is len(reg) + offset; an index expression is the loop
\* variable.
QAllocate(size, target) == [kind |-> "allocate", size |-> size, target |-> target]
QApplyToAll(op, target) == [kind |-> "apply_to_all", op |-> op, target |-> target]
QSwap(a, b) == [kind |-> "SWAP", args |-> <<a, b>>]
QIndex(reg, var) == [reg |-> reg, idx |-> var]
QRepeat(var, lenOf, offset, body) ==
  [kind |-> "repeat", var |-> var, count |-> [lenOf |-> lenOf, offset |-> offset], body |-> body]

\* mutant: repeat(i:psi.len - 1)
QmodMainProgram_short ==
  << QAllocate(5, "psi"), QAllocate(5, "phi"),
     QApplyToAll("H", "psi"), QApplyToAll("X", "phi"),
     QRepeat("i", "psi", -1, QSwap(QIndex("phi", "i"), QIndex("psi", "i"))) >>

QmodMainProgram ==
  << QAllocate(5, "psi"), QAllocate(5, "phi"),
     QApplyToAll("H", "psi"), QApplyToAll("X", "phi"),
     QRepeat("i", "psi", 0, QSwap(QIndex("phi", "i"), QIndex("psi", "i"))) >>

\* SWAP(a, b) with the loop variable var bound to i: exchanges the two
\* qubits a.reg[i] and b.reg[i]
QmodSwapAt(regs, sw, var, i) ==
  LET a == sw.args[1]
      b == sw.args[2]
      ia == IF a.idx = var THEN i ELSE 0
      ib == IF b.idx = var THEN i ELSE 0
      qa == regs[a.reg][ia + 1]
      qb == regs[b.reg][ib + 1]
      r1 == [regs EXCEPT ![a.reg] = [@ EXCEPT ![ia + 1] = qb]]
  IN [regs |-> [r1 EXCEPT ![b.reg] = [@ EXCEPT ![ib + 1] = qa]],
      trace |-> <<<<"SWAP", a.reg, ia>>>>]

\* iterations i .. count - 1 of a repeat
RECURSIVE QmodRepeatFrom(_, _, _, _)
QmodRepeatFrom(regs, st, i, count) ==
  IF i >= count THEN [regs |-> regs, trace |-> <<>>]
  ELSE LET r1 == QmodSwapAt(regs, st.body, st.var, i)
           r2 == QmodRepeatFrom(r1.regs, st, i + 1, count)
       IN [regs |-> r2.regs, trace |-> r1.trace \o r2.trace]

\* one QMOD statement, run to completion
QmodExec(regs, st) ==
  CASE st.kind = "allocate" ->
         [regs |-> [regs EXCEPT ![st.target] = [k \in 1..st.size |-> "zero"]],
          trace |-> <<<<"allocate", st.target, st.size>>>>]
    [] st.kind = "apply_to_all" ->
         [regs |-> [regs EXCEPT ![st.target] = [k \in DOMAIN @ |-> ApplyGate(st.op, @[k])]],
          trace |-> [k \in 1..Len(regs[st.target]) |-> <<st.op, st.target, k - 1>>]]
    [] st.kind = "repeat" ->
         QmodRepeatFrom(regs, st, 0, Len(regs[st.count.lenOf]) + st.count.offset)

Versions == {"py", "qmod"}

Program(p) == IF p = "py" THEN PyMainProgram ELSE QmodMainProgram

RepeatInit ==
  /\ tpc = [p \in Versions |-> 1]
  /\ tj = [p \in Versions |-> 0]
  /\ tregs = [p \in Versions |-> [r \in {"psi", "phi"} |-> <<>>]]
  /\ ttrace = [p \in Versions |-> <<>>]

RepeatIdle == RepeatInit

RepeatDone(p) == tpc[p] > Len(Program(p))

\* allocate(num_qubits=n, out=reg): n qubits in |0>
AllocateStep(p, st) ==
  /\ st.op = "allocate"
  /\ tregs' = [tregs EXCEPT ![p][st.reg] = [k \in 1..st.n |-> "zero"]]
  /\ ttrace' = [ttrace EXCEPT ![p] = Append(@, <<"allocate", st.reg, st.n>>)]
  /\ tpc' = [tpc EXCEPT ![p] = @ + 1]
  /\ UNCHANGED tj

\* one iteration of apply_to_all(gate, reg): gate on reg[i]
ApplyToAllStep(p, st) ==
  /\ st.op = "apply_to_all"
  /\ LET i == tj[p]
         last == i + 1 >= Len(tregs[p][st.reg])
     IN /\ tregs' = [tregs EXCEPT ![p][st.reg] =
                       [@ EXCEPT ![i + 1] = ApplyGate(st.gate, @)]]
        /\ ttrace' = [ttrace EXCEPT ![p] = Append(@, <<st.gate, st.reg, i>>)]
        /\ tj' = [tj EXCEPT ![p] = IF last THEN 0 ELSE i + 1]
        /\ tpc' = [tpc EXCEPT ![p] = IF last THEN @ + 1 ELSE @]

\* one iteration i of repeat(count=psi.len, iteration=SWAP(reg[i], reg2[i]))
RepeatStep(p, st) ==
  /\ st.op = "repeat"
  /\ LET i == tj[p]
         count == Len(tregs[p]["psi"]) + st.n
         last == i + 1 >= count
         x == tregs[p][st.reg]
         y == tregs[p][st.reg2]
     IN /\ count > 0
        /\ tregs' = [tregs EXCEPT ![p][st.reg] = [x EXCEPT ![i + 1] = y[i + 1]],
                                  ![p][st.reg2] = [y EXCEPT ![i + 1] = x[i + 1]]]
        /\ ttrace' = [ttrace EXCEPT ![p] = Append(@, <<"SWAP", st.reg, i>>)]
        /\ tj' = [tj EXCEPT ![p] = IF last THEN 0 ELSE i + 1]
        /\ tpc' = [tpc EXCEPT ![p] = IF last THEN @ + 1 ELSE @]

MainStep(p) ==
  /\ ~RepeatDone(p)
  /\ LET st == Program(p)[tpc[p]]
     IN AllocateStep(p, st) \/ ApplyToAllStep(p, st) \/ RepeatStep(p, st)

PyMainStep == MainStep("py")

\* one statement of the QMOD listing
QmodMainStep ==
  /\ ~RepeatDone("qmod")
  /\ \E r \in {QmodExec(tregs["qmod"], QmodMainProgram[tpc["qmod"]])} :
       /\ tregs' = [tregs EXCEPT !["qmod"] = r.regs]
       /\ ttrace' = [ttrace EXCEPT !["qmod"] = @ \o r.trace]
  /\ tpc' = [tpc EXCEPT !["qmod"] = @ + 1]
  /\ UNCHANGED tj

\* ------------------------------------------------------------------
\* hw4: S_operator on the classical basis states |j, k> of the two
\* size-qubit unsigned registers.  vertices - adjacent_vertices is
\* computed by the SDK into a register wide enough for its whole range
\* (-15..15), so it is exact integer subtraction.
\* ------------------------------------------------------------------

size == 4

Bit(v, i) == (v \div 2^i) % 2

\* mutant: the difference wraps modulo 2**size (a 4-bit register)
edge_oracle_mod16(v, a) ==
  ((v - a) % 2^size = 1) \/ ((v - a) % 2^size = 2^size - 1)

\* res |= ((vertices - adjacent_vertices) == 1) | (... == -1)
edge_oracle(v, a) == ((v - a) = 1) \/ ((v - a) = -1)

\* SWAP(x[i], y[i]) on the basis values x, y
SwapBit(xy, i) ==
  LET x == xy[1]
      y == xy[2]
      bx == Bit(x, i)
      by == Bit(y, i)
  IN <<x + (by - bx) * 2^i, y + (bx - by) * 2^i>>

RECURSIVE SwapLoop(_, _, _)
SwapLoop(xy, i, count) ==
  IF i >= count THEN xy ELSE SwapLoop(SwapBit(xy, i), i + 1, count)

\* mutant: repeat(count=x.len - 1, ...)
bitwise_swap_short(x, y) == SwapLoop(<<x, y>>, 0, size - 1)

\* repeat(count=x.len, iteration=lambda i: SWAP(x[i], y[i]))
bitwise_swap(x, y) == SwapLoop(<<x, y>>, 0, size)

NodeValues == 0..2^size - 1

ShiftInit ==
  /\ sj0 \in NodeValues
  /\ sk0 \in NodeValues
  /\ sv = sj0
  /\ sa = sk0
  /\ sres = <<>>
  /\ scalls = 0

ShiftIdle ==
  /\ sj0 = 0 /\ sk0 = 0 /\ sv = 0 /\ sa = 0 /\ sres = <<>> /\ scalls = 0

\* applications of S_operator checked (one, and the involution)
MaxShiftCalls == 2

\* S_operator: res = edge_oracle(...); control(res == 1, bitwise_swap(...));
\* res is not uncomputed and stays with the edge bit
S_operator ==
  /\ scalls < MaxShiftCalls
  /\ LET e == edge_oracle(sv, sa)
         sw == bitwise_swap(sv, sa)
     IN /\ sres' = Append(sres, IF e THEN 1 ELSE 0)
        /\ sv' = IF e THEN sw[1] ELSE sv
        /\ sa' = IF e THEN sw[2] ELSE sa
  /\ scalls' = scalls + 1
  /\ UNCHANGED <<sj0, sk0>>

\* ------------------------------------------------------------------
\* hw4: zero_diffuzer on a basis state |x> of a size-qubit register.
\* The phase of the branch is tracked, since it is relative to the other
\* branches of x.  X|-> = -|->; the other X and H cases add no sign.
\* ------------------------------------------------------------------

XSign(q) == IF q = "minus" THEN -1 ELSE 1

\* diffuzer_oracle(aux, x): aux ^= (x != 0)
diffuzer_oracle(x, aux, sign) ==
  IF x # 0 THEN <<ApplyX(aux), sign * XSign(aux)>> ELSE <<aux, sign>>

\* the statements zero_diffuzer performs on (aux, sign), in order:
\* allocate(1, aux); within_apply(compute = prepare_minus(aux) = X; H,
\* action = lambda: diffuzer_oracle, then the inverse of compute: H; X).
\* The action lambda evaluates the name diffuzer_oracle without calling
\* it, so it applies nothing.
ZeroDiffuzerStmt(k, x, aux, sign) ==
  CASE k = 0 -> <<"zero", sign>>
    [] k = 1 -> <<ApplyX(aux), sign * XSign(aux)>>
    [] k = 2 -> <<ApplyH(aux), sign>>
    [] k = 3 -> <<aux, sign>>
    [] k = 4 -> <<ApplyH(aux), sign>>
    [] k = 5 -> <<ApplyX(aux), sign * XSign(aux)>>

ZeroDiffuzerLen == 6

DiffInit ==
  /\ dx \in NodeValues
  /\ daux = "none"
  /\ dsign = 1
  /\ dstage = 0

DiffIdle == dx = 0 /\ daux = "none" /\ dsign = 1 /\ dstage = 0

zero_diffuzer_step ==
  /\ dstage < ZeroDiffuzerLen
  /\ LET r == ZeroDiffuzerStmt(dstage, dx, daux, dsign)
     IN daux' = r[1] /\ dsign' = r[2]
  /\ dstage' = dstage + 1
  /\ UNCHANGED dx

HwNames == {"size", "num_nodes"}

HwInit ==
  /\ hpc = "start"
  /\ hwrites = [v \in HwNames |-> 0]
  /\ node = 0
  /\ prob = <<>>
  /\ printed = <<>>

\* cell: size = 4 ; num_nodes = 2**size
HwSizes ==
  /\ hpc = "start"
  /\ hwrites' = [v \in HwNames |-> hwrites[v] + 1]
  /\ hpc' = "coin"
  /\ UNCHANGED <<node, prob, printed>>

\* one pass of C_operator's loop body: C_iteration(i, ...) builds prob,
\* prints it, and applies the controlled coin; the loop ends after i = 15
C_operator_step ==
  /\ hpc = "coin"
  /\ node < 2^4
  /\ prob' = C_iteration(node)
  /\ printed' = Append(printed, <<node, C_iteration(node)>>)
  /\ node' = node + 1
  /\ hpc' = IF node + 1 = 2^4 THEN "done" ELSE "coin"
  /\ UNCHANGED hwrites

HwNext == HwSizes \/ C_operator_step

\* the two notebooks run in separate kernels, interleaved
qvars == <<repeatvars, shiftvars, diffvars, dervars>>

QIdle == RepeatIdle /\ ShiftIdle /\ DiffIdle /\ DerIdle

Init == HwInit /\ RInit /\ FIdle /\ GIdle /\ QIdle

\* the two notebooks share no state; the rainbow notebook is run after the
\* hw4 notebook has finished
Next ==
  \/ HwNext /\ UNCHANGED <<rvars, factorvars, gaussvars, qvars>>
  \/ hpc = "done" /\ RNext /\ UNCHANGED <<hwvars, factorvars, gaussvars, qvars>>

vars == <<hwvars, rvars, factorvars, gaussvars, qvars>>

Spec == Init /\ [][Next]_vars

\* the rounding helpers applied to bounded inputs
FactorInit == HwInit /\ RInit /\ FInit /\ GIdle /\ QIdle

FactorNext == ApplyFactors /\ UNCHANGED <<hwvars, rvars, gaussvars, qvars>>

SpecFactor == FactorInit /\ [][FactorNext]_vars

\* gaussian_discretization applied to bounded inputs
GaussInit == HwInit /\ RInit /\ FIdle /\ GInit /\ QIdle

GaussNext == CallGaussian /\ UNCHANGED <<hwvars, rvars, factorvars, qvars>>

SpecGauss == GaussInit /\ [][GaussNext]_vars

\* the repeat tutorial: its Python SDK main and its native QMOD listing
RepeatSpecInit == HwInit /\ RInit /\ FIdle /\ GIdle /\ RepeatInit /\ ShiftIdle /\ DiffIdle /\ DerIdle

RepeatNext ==
  /\ PyMainStep \/ QmodMainStep
  /\ UNCHANGED <<hwvars, rvars, factorvars, gaussvars, shiftvars, diffvars, dervars>>

SpecRepeat == RepeatSpecInit /\ [][RepeatNext]_vars

\* hw4's S_operator on every basis state |j, k>
ShiftSpecInit == HwInit /\ RInit /\ FIdle /\ GIdle /\ RepeatIdle /\ ShiftInit /\ DiffIdle /\ DerIdle

ShiftNext == S_operator /\ UNCHANGED <<hwvars, rvars, factorvars, gaussvars, repeatvars, diffvars, dervars>>

SpecShift == ShiftSpecInit /\ [][ShiftNext]_vars

\* hw4's zero_diffuzer on every basis state |x>
DiffSpecInit == HwInit /\ RInit /\ FIdle /\ GIdle /\ RepeatIdle /\ ShiftIdle /\ DiffInit /\ DerIdle

DiffNext == zero_diffuzer_step /\ UNCHANGED <<hwvars, rvars, factorvars, gaussvars, repeatvars, shiftvars, dervars>>

SpecDiff == DiffSpecInit /\ [][DiffNext]_vars

\* rainbow cell 2 run twice on each bounded input
DerSpecInit == HwInit /\ RInit /\ FIdle /\ GIdle /\ RepeatIdle /\ ShiftIdle /\ DiffIdle /\ DerInit

DerNext ==
  /\ DerivedRun1 \/ DerivedRun2
  /\ UNCHANGED <<hwvars, rvars, factorvars, gaussvars, repeatvars, shiftvars, diffvars>>

SpecDerived == DerSpecInit /\ [][DerNext]_vars

\* ------------------------------------------------------------------
\* Properties of the hw4 notebook
\* ------------------------------------------------------------------

LineN == 2^4

\* C1: for every node i of the 16-node line, the vector printed by
\* C_iteration has length 16, puts 1.0 on the single neighbour of an
\* endpoint, 0.5 on both neighbours of an interior node, 0 elsewhere,
\* and sums to 1.0 (2 half-units).
C1_NeighborVector ==
  \A k \in 1..Len(printed) :
    LET i == printed[k][1]
        p == printed[k][2]
        nbrs == {j \in 0..LineN - 1 : j = i - 1 \/ j = i + 1}
    IN /\ Len(p) = LineN
       /\ (i = 0 => p[1 + 1] = 2)
       /\ (i = LineN - 1 => p[(LineN - 2) + 1] = 2)
       /\ (0 < i /\ i < LineN - 1 => p[(i - 1) + 1] = 1 /\ p[(i + 1) + 1] = 1)
       /\ \A j \in 0..LineN - 1 : j \notin nbrs => p[j + 1] = 0
       /\ SeqSum(p) = 2

C1_Witness == Len(printed) = LineN

\* C2: node 0 yields [0,1,0,...,0]; node 5 yields 0.5 at indices 4 and 6
\* and 0 elsewhere.
C2_Examples ==
  \A k \in 1..Len(printed) :
    /\ printed[k][1] = 0 =>
         printed[k][2] = [j \in 1..LineN |-> IF j - 1 = 1 THEN 2 ELSE 0]
    /\ printed[k][1] = 5 =>
         printed[k][2] = [j \in 1..LineN |-> IF j - 1 \in {4, 6} THEN 1 ELSE 0]

C2_Witness == Len(printed) > 5 /\ printed[1][1] = 0 /\ printed[6][1] = 5

\* ------------------------------------------------------------------
\* Properties of the rainbow options notebook
\* ------------------------------------------------------------------

\* ------------------------------------------------------------------
\* Properties of the numeric helpers
\* ------------------------------------------------------------------

\* mu - 3*sigma and mu + 3*sigma round to the same float64 (sigma small)
GridCollapsed(mu, sigma) ==
  sigma.e = 0 /\ Fl64AddDy(mu, -(3 * sigma.m), 0) = Fl64AddDy(mu, 3 * sigma.m, 0)

\* upper - lower = 6*sigma is at least 2^1024, past the largest float64
SpanOverflows(sigma) == FLead(FMk(6 * sigma.m, sigma.e)) >= FMaxExp

IsProbabilityVector(ps) ==
  /\ \A k \in 1..Len(ps) :
       /\ ~ps[k].nan
       /\ ps[k].num >= 0
       /\ ps[k].den = ps[1].den
  /\ ps[1].den > 0
  /\ SeqSum([k \in 1..Len(ps) |-> ps[k].num]) = ps[1].den

\* C3 (as stated): for every n >= 0 and any mu, sigma > 0 the returned list
\* has 2**n non-negative entries summing to 1.
C3_GaussianSumsToOne ==
  gstage = "done" => (Len(gprobs) = 2^gn /\ IsProbabilityVector(gprobs))

\* C3 (amended): the list always has 2**n entries; when mu - 3*sigma and
\* mu + 3*sigma are distinct floats and 6*sigma is below 2^1024 the entries
\* are non-negative and sum to 1; when both bounds round to the same float,
\* or 6*sigma overflows (sigma >= 2^1024 / 6, about 3e307, e.g. 1e308),
\* every entry is NaN.
C3_GaussianSumsToOneUnlessCollapsed ==
  gstage = "done" =>
    /\ Len(gprobs) = 2^gn
    /\ (~GridCollapsed(gmu, gsig) /\ ~SpanOverflows(gsig)) => IsProbabilityVector(gprobs)
    /\ (GridCollapsed(gmu, gsig) \/ SpanOverflows(gsig)) =>
         \A k \in 1..Len(gprobs) : gprobs[k].nan

\* witness: sigma = 2^1022, lower and upper finite but upper - lower = inf
C3_Witness ==
  /\ gstage = "done" /\ gn > 1 /\ gmu.m # 0
  /\ SpanOverflows(gsig) /\ gsig.m = 1
  /\ \A k \in 1..Len(gprobs) : gprobs[k].nan

\* C4: round_factor is idempotent and returns a multiple of 1/4; when
\* round(a * 4) raises OverflowError (a * 4 overflows to inf), the nested
\* call raises the same error.
FIsQuarterMult(x) == x.k = "fin" /\ (x.m = 0 \/ x.e >= -FRAC_PLACES)

C4_RoundIdempotent ==
  fstage = "done" =>
    IF fr.k = "err" THEN frr = fr ELSE frr = fr /\ FIsQuarterMult(fr)

\* witness: a tie (a*4 half-way between integers) that moves a
C4_Witness ==
  fstage = "done" /\ fx.k = "fin" /\ fx.e = -FRAC_PLACES - 1 /\ fr # fx

\* x < y + 1/4 for finite floats x, y, decided exactly
FBelowNextQuarter(x, y) ==
  CASE x.e >= 0 /\ y.e >= 0 -> FCmp(x, y) <= 0
    [] (x.m = 0 \/ FLead(x) < 20) /\ (y.m = 0 \/ FLead(y) < 20) ->
         LET e0 == IF x.e < y.e THEN (IF x.e < -2 THEN x.e ELSE -2)
                   ELSE (IF y.e < -2 THEN y.e ELSE -2)
         IN x.m * 2^(x.e - e0) < y.m * 2^(y.e - e0) + 2^(-2 - e0)
    [] (x.e < 0 /\ FLead(x) < 16 /\ y.m # 0 /\ FLead(y) >= 20)
       \/ (y.e < 0 /\ FLead(y) < 16 /\ x.m # 0 /\ FLead(x) >= 20) ->
         FCmp(x, y) < 0

C14_ShiftSwapsEdges ==
  scalls = 1 =>
    IF sj0 - sk0 = 1 \/ sj0 - sk0 = -1
    THEN sv = sk0 /\ sa = sj0
    ELSE sv = sj0 /\ sa = sk0

C14_Witness == scalls = 1 /\ sj0 - sk0 = -1 /\ sj0 > 0

\* C15: zero_diffuzer(x) is P = 2|0><0| - I: it multiplies |x> by
\* (-1)^(x != 0) and returns aux to |0>.
C15_ZeroDiffuzerPhase ==
  dstage = ZeroDiffuzerLen =>
    /\ daux = "zero"
    /\ dsign = (IF dx # 0 THEN -1 ELSE 1)

\* C16: on basis states S_operator applied twice gives back |j, k>.
C16_ShiftInvolution == scalls = 2 => (sv = sj0 /\ sa = sk0)

C16_Witness == scalls = 2 /\ sj0 - sk0 = 1

\* ------------------------------------------------------------------
\* Properties of the repeat tutorial
\* ------------------------------------------------------------------

\* C12: after main, psi holds what phi was prepared to (all |1>) and phi
\* holds what psi was prepared to (all |+>), qubit by qubit.
C12_RegistersExchanged ==
  RepeatDone("py") =>
    /\ tregs["py"]["psi"] = [k \in 1..5 |-> "one"]
    /\ tregs["py"]["phi"] = [k \in 1..5 |-> "plus"]

C12_Witness == RepeatDone("py")

\* C13: the native QMOD listing performs the same gate sequence as the
\* Python SDK main and ends in the same register states.
C13_QmodMatchesPython ==
  (RepeatDone("py") /\ RepeatDone("qmod")) =>
    /\ ttrace["py"] = ttrace["qmod"]
    /\ tregs["py"] = tregs["qmod"]

C13_Witness == RepeatDone("py") /\ RepeatDone("qmod")

\* C6: when K is at least the largest asset value reachable on the grid,
\* the sanity check displays its warning and no model is synthesized or
\* executed afterwards.
C6_GuardShortCircuits == warned => (synths = 0 /\ ~executed)

\* C7 (as stated): the assertion passes only for a parsed interval
\* [lo, hi] contained in [-5, 45].
C7_AssertContainment ==
  asserted = "pass" =>
    (RCmp(parsed.lo, RInt(-5)) >= 0 /\ RCmp(parsed.hi, RInt(45)) <= 0)

\* the intervals [lo1, hi1] and [lo2, hi2] share a point:
\* max(lo1, lo2) <= min(hi1, hi2)
IntervalsMeet(lo1, hi1, lo2, hi2) ==
  RCmp(IF RCmp(lo1, lo2) >= 0 THEN lo1 ELSE lo2,
       IF RCmp(hi1, hi2) <= 0 THEN hi1 ELSE hi2) <= 0

\* C7 (amended): once it has run, the assertion passes exactly when the
\* parsed interval [lo, hi] and [-5, 45] have a point in common; it fails
\* only for an interval lying wholly below -5 or wholly above 45.
C7_AssertOverlap ==
  asserted # "none" =>
    (asserted = "pass" <=> IntervalsMeet(parsed.lo, parsed.hi, RInt(-5), RInt(45)))

\* witness: an interval reaching below -5 that still passes, as in the
\* recorded run's [-16.37..., 41.33...] at K = 190
C7_Witness == asserted = "pass" /\ RCmp(parsed.lo, RInt(-5)) < 0

\* C8: the option value and both interval ends are the image of the IQAE
\* estimation and interval under v -> v*(C*B) + C*A - K, with A, B, C as
\* get_strike_price_theta_integration computes them for a register of
\* MAX_NUM_QUBITS qubits and MAX_FRAC_PLACES fraction digits.
C8_ParseAffine ==
  executed =>
    \E th \in {ThetaABC(MAX_NUM_QUBITS, MAX_FRAC_PLACES)} :
      LET Affine(v) == RSub(RAdd(RMul(RDec(v, ProbDigits), RMul(th.C, th.B)), RMul(th.C, th.A)), RInt(K))
      IN /\ parsed.option_value = Affine(iqae.est)
         /\ parsed.lo = Affine(iqae.lo)
         /\ parsed.hi = Affine(iqae.hi)

C8_Witness == executed /\ iqae.lo < iqae.est /\ iqae.est < iqae.hi

C10_SingleAssignment ==
  /\ \A v \in RNames : rwrites[v] <= 1
  /\ \A v \in HwNames : hwrites[v] <= 1

\* C10 (amended): every listed name except c is assigned at most once at
\* top level; c is assigned twice within cell 6 (the raw value, then
\* c = round_factor(c)), and the model synthesized later reads the rounded c.
C10_SingleAssignmentExceptC ==
  /\ \A v \in RNames \ {"c"} : rwrites[v] <= 1
  /\ \A v \in HwNames : hwrites[v] <= 1
  /\ rwrites["c"] \in {0, 2}
  /\ synths > 0 => cRead = round_factor_dec(c_raw, Sc)

C10_Witness == synths > 0 /\ rwrites["c"] = 2 /\ hwrites["num_nodes"] = 1

====
